---- MODULE Spec2Model ----
(***************************************************************************)
(* A store as built by createStore (src/unnamed/part_000): one state       *)
(* value, one active reducer, the listener arrays currentListeners and     *)
(* nextListeners, and the isDispatching flag.  JavaScript runs the store   *)
(* on one thread, so the model keeps one call stack: a dispatch call is a  *)
(* frame that first runs the reducer and then the notification loop, and a *)
(* listener being run is a frame above it.  The code of a reducer or of a  *)
(* listener is the caller's: while such a body is running it may call any  *)
(* operation of the store any number of times, and return or throw.        *)
(* Three scenarios share the operations and differ in their callers: Spec  *)
(* (every operation, every kind of argument, listeners do not dispatch),   *)
(* SpecOrder (subscriptions and the order of notification) and SpecNested  *)
(* (listeners that dispatch).  Three more put something around the store:  *)
(* SpecCombine (the reducer is one composed by combineReducers,            *)
(* src/src/combineReducers.js), SpecMiddleware (the store is enhanced by   *)
(* applyMiddleware, src/src/applyMiddleware.js) and SpecObserve (an        *)
(* observer subscribed through observable(), with listeners that           *)
(* dispatch).                                                              *)
(***************************************************************************)
EXTENDS Integers, Sequences, FiniteSets, TLC

(* ---------------------------- bounds ---------------------------------- *)
\* state values are 0 .. NumValues-1, and Undefined
NumValues == 3
\* subscribe calls that return a closure, and dispatch calls in progress at
\* once, in the three scenarios Spec, SpecOrder and SpecNested
MaxSubs == 2
MaxDepth == 2
OrderSubs == 3
NestedSubs == 1
NestedDepth == 2
\* subscribe calls in the scenario SpecCombine
CombineSubs == 1
\* in the scenario SpecMiddleware: middlewares, calls of the composed dispatch
\* in progress at once, and subscribe calls
MaxMiddlewares == 2
MaxEntries == 2
MiddlewareSubs == 1
\* subscribe calls, and dispatch calls in progress at once, in the scenario
\* SpecObserve
ObserveSubs == 2
ObserveDepth == 2
\* dispatch calls that reach the reducer from the start of an outermost
\* dispatch to its end, in the scenario SpecObserve
ObservePosts == 2

(* ---------------------------- values ---------------------------------- *)
\* JavaScript's undefined, as a state value
Undefined == 0 - 1
StateValues == 0 .. (NumValues - 1)
\* the values a caller passes as preloadedState
PreloadedStates == {Undefined, 1}

\* ActionTypes.INIT
INIT == "@@redux/INIT"
TypeUndefined == "undefined"
\* an action is what isPlainObject says of it and its type field
InitAction == [plain |-> TRUE, type |-> INIT]
UserActions == {[plain |-> TRUE, type |-> "INC"], [plain |-> TRUE, type |-> "OTHER"]}
NoAction == [plain |-> FALSE, type |-> TypeUndefined]
\* a class instance that has a type, and a plain object that has none
MalformedActions == {[plain |-> FALSE, type |-> "INC"], [plain |-> TRUE, type |-> TypeUndefined]}
Actions == UserActions \cup MalformedActions

\* listener functions, and a value that is not a function
Listeners == {"f", "g"}
NotCallable == "notCallable"
NoListener == "none"

\* the reducers a caller supplies
Reducers == {"counter", "resetter"}

\* the errors of the store, by the messages of the source, and the caller's own
ValidationError == "ValidationError"
InvalidOperationError == "InvalidOperationError"
ConfigurationError == "ConfigurationError"
UserError == "UserError"
\* what the body of a reducer or of a listener throws: an error of its own, or
\* one a call of the store raised in it
Thrown == {UserError, InvalidOperationError}
Ok == "ok"

\* what a reducer returns when it returns: a pure function of its arguments
Reduce(r, s, a) ==
  IF r = "counter"
  THEN IF a.type = "INC"
       THEN (IF s = Undefined THEN 1 ELSE (s + 1) % NumValues)
       ELSE (IF s = Undefined THEN 0 ELSE s)
  ELSE IF a.type = INIT THEN 0
       ELSE IF a.type = "INC"
            THEN (IF s = Undefined THEN 2 ELSE (s + 2) % NumValues)
            ELSE (IF s = Undefined THEN 0 ELSE s)

(* ---------------------------- combineReducers: values ----------------- *)
\* the keys of the `reducers` argument, in the order of insertion
Keys == <<"a", "b">>
KeySet == {Keys[n] : n \in 1 .. Len(Keys)}

\* the type of the probe action of assertReducerSanity: a random string, so a
\* type no reducer knows
PROBE == "@@redux/PROBE_UNKNOWN_ACTION"
ProbeAction == [plain |-> TRUE, type |-> PROBE]

\* the reducers a caller puts under a key:
\*   keep       (s = 0, a) => s
\*   count      (s = 0, a) => a.type === 'INC' ? (s + 1) % NumValues : s
\*   noDefault  (s, a) => s
\*   initOnly   (s, a) => a.type === ActionTypes.INIT && s === undefined ? 0 : s
\*   dropOnInc  (s = 0, a) => a.type === 'INC' ? undefined : s
SubReducers == {"keep", "count", "noDefault", "initOnly", "dropOnInc"}

\* what the reducer of a key returns: a pure function of its arguments
SubReduce(r, s, a) ==
  LET d == IF s = Undefined THEN 0 ELSE s
  IN  IF r = "keep" THEN d
      ELSE IF r = "count" THEN (IF a.type = "INC" THEN (d + 1) % NumValues ELSE d)
      ELSE IF r = "noDefault" THEN s
      ELSE IF r = "initOnly" THEN (IF a.type = INIT /\ s = Undefined THEN 0 ELSE s)
      ELSE (IF a.type = "INC" THEN Undefined ELSE d)

\* typeof x === 'function'
IsFunction(x) == x \in Listeners \cup Reducers \cup SubReducers \cup {"observeState"}

\* the `reducers` argument: under each key a reducer or a value that is no function
ReducerMaps == [1 .. Len(Keys) -> SubReducers \cup {NotCallable}]

\* a state object: the value under each key, Undefined where it has no such key
EmptyMap == [k \in KeySet |-> Undefined]
\* the state objects a caller passes as preloadedState
PreloadedMaps == [KeySet -> {Undefined, 1}]

\* the composed reducer, as a value of currentReducer
Combination == "combination"

\* the errors of the reducer composition, by what their messages say
NoError == [kind |-> "none", key |-> "-", type |-> "-"]
\* `Reducer "${key}" returned undefined during initialization`
InitError(key) == [kind |-> "initialization", key |-> key, type |-> "-"]
\* `Reducer "${key}" returned undefined when probed with a random type`
ProbeError(key) == [kind |-> "probe", key |-> key, type |-> "-"]
\* getUndefinedStateErrorMessage(key, action)
UndefinedStateError(key, action) == [kind |-> "undefined", key |-> key, type |-> action.type]

\* no call of the composed reducer yet
NoCall == [calls |-> <<>>, error |-> NoError, same |-> FALSE, state |-> EmptyMap,
           action |-> NoAction, value |-> EmptyMap]

(* ---------------------------- applyMiddleware: values ----------------- *)
\* A dispatch function is the sequence of the middlewares an action given to
\* it goes through before it reaches the dispatch of the store.
\* store.dispatch itself
storeDispatch == <<>>
\* applyMiddleware(...middlewares): the n middlewares 1 .. n
MiddlewareArgs == {[m \in 1 .. n |-> m] : n \in 0 .. MaxMiddlewares}
\* no applyMiddleware
NoEnhancer == [middlewares |-> <<>>, chain |-> <<>>, dispatch |-> storeDispatch,
               returned |-> TRUE]

(* ---------------------------- observable: values ---------------------- *)
\* the function observeState that observable().subscribe hands to subscribe
ObserveStateListener == "observeState"
TypeError == "TypeError"
\* what a caller passes as observer: whether typeof says 'object', and whether
\* it has a next
Observers == {[object |-> FALSE, next |-> FALSE], [object |-> TRUE, next |-> FALSE],
              [object |-> TRUE, next |-> TRUE]}
\* no observer yet
NoObserver == [next |-> FALSE, closure |-> 0, received |-> <<>>]
\* no dispatch yet
NoOuter == [live |-> {}, seen |-> {}, posts |-> <<>>]

(* ---------------------------- state ----------------------------------- *)
VARIABLES
  currentReducer,    \* var currentReducer
  currentState,      \* var currentState
  currentListeners,  \* var currentListeners: the array it refers to
  nextListeners,     \* var nextListeners: the array it refers to
  isDispatching,     \* var isDispatching
  heap,              \* the listener arrays in use, by identity
  subs,              \* the closures subscribe returned: listener, isSubscribed
  stack,             \* the calls in progress, innermost last
  pc,                \* createStore: "init", "creating", "ready", "failed"
  lastOp,            \* the last step taken, and how the call it ended came out
  fold,              \* the reducer createStore was given and its value folded
                     \* over the actions dispatched, while every reducer call
                     \* returned and replaceReducer was not called
  activeArg,         \* the reducer last handed to the store
  limit,             \* the bounds of the scenario: subs, depth
  objs,              \* the state objects a composed reducer was given or made,
                     \* by identity
  composer,          \* what combineReducers keeps: finalReducers, sanityError
  combined,          \* the last call of the composed reducer: the calls it
                     \* made of the reducers of the keys, and what it raised
  enhancer,          \* what applyMiddleware keeps: middlewares, chain, the
                     \* variable dispatch, and whether it has returned the store
  observer,          \* the observer of observable().subscribe: whether it has
                     \* a next, the closure subscribe returned for observeState
                     \* (0: none), and the states next received since the
                     \* outermost dispatch in progress, or the last one, began
  outer              \* of the outermost dispatch in progress, or the last one:
                     \* the closures subscribed when it began, the listeners
                     \* called since currentState was last assigned, and the
                     \* states assigned to currentState since it began

\* the store, as createStore builds it
storeVars == <<currentReducer, currentState, currentListeners, nextListeners,
               isDispatching, heap, subs, stack, pc, lastOp,
               fold, activeArg, limit>>

\* the reducer composition
combineVars == <<objs, composer, combined>>

\* the middleware
middlewareVars == <<enhancer>>

\* the observer, and what is recorded of a dispatch for it
observeVars == <<observer, outer>>

\* what is built around the store
extVars == <<combineVars, middlewareVars, observeVars>>

vars == <<storeVars, extVars>>

\* the listener arrays and what refers to them
arrayVars == <<heap, currentListeners, nextListeners, stack>>

(* ---------------------------- helpers --------------------------------- *)
Top == stack[Len(stack)]
Pop(s) == SubSeq(s, 1, Len(s) - 1)

\* the body of a reducer is running
InReducer == stack # <<>> /\ Top.kind = "dispatch" /\ Top.phase = "reduce"
\* the body of a listener is running
InListener == stack # <<>> /\ Top.kind = "listener"
\* the notification loop of a dispatch is between two listeners
InLoop == stack # <<>> /\ Top.kind = "dispatch" /\ Top.phase = "notify"

\* the body of a middleware is running, called with an action
InMiddleware == stack # <<>> /\ Top.kind = "middleware"

\* code that holds the store's handle, or functions of it, is running: the
\* owner of the store at top level, or the body of a reducer, of a listener or
\* of a middleware
CanCall == pc = "ready" /\ (stack = <<>> \/ InReducer \/ InListener \/ InMiddleware)

Depth == Cardinality({k \in 1 .. Len(stack) : stack[k].kind = "dispatch"})

\* a step and, when it ends a call, what the caller gets: the outcome, the
\* state or the action returned, and where an error was raised ("args": the
\* checks of the arguments, "guard": the isDispatching check, "reducer",
\* "listener")
Did(op, outcome, st, act) ==
  [op |-> op, outcome |-> outcome, state |-> st, action |-> act, at |-> "-"]
Raised(op, err, at) ==
  [op |-> op, outcome |-> err, state |-> Undefined, action |-> NoAction, at |-> at]
Running(op) == Did(op, "running", Undefined, NoAction)

\* the listeners of the closures not yet used, in the order of their subscribe calls
RECURSIVE LiveListeners(_)
LiveListeners(ss) ==
  IF ss = <<>> THEN <<>>
  ELSE LET rest == LiveListeners(Pop(ss))
           last == ss[Len(ss)]
       IN  IF last.isSubscribed THEN Append(rest, last.listener) ELSE rest

\* the fold has been given up
NoFold == [reducer |-> "none", value |-> Undefined]
FoldStep(action) ==
  IF fold = NoFold THEN NoFold
  ELSE [fold EXCEPT !.value = Reduce(fold.reducer, fold.value, action)]

Count(seq, x) == Cardinality({k \in 1 .. Len(seq) : seq[k] = x})

\* Array.prototype.indexOf: the first index (from 0) holding x, or -1
indexOf(seq, x) ==
  IF \E k \in 1 .. Len(seq) : seq[k] = x
  THEN (CHOOSE k \in 1 .. Len(seq) : seq[k] = x /\ \A j \in 1 .. (k - 1) : seq[j] # x) - 1
  ELSE 0 - 1

\* Array.prototype.splice(index, 1): a negative index counts from the end
splice(seq, index) ==
  LET len   == Len(seq)
      start == IF index < 0
               THEN (IF len + index < 0 THEN 0 ELSE len + index)
               ELSE (IF index > len THEN len ELSE index)
  IN  [k \in 1 .. (IF start < len THEN len - 1 ELSE len) |->
         IF k <= start THEN seq[k] ELSE seq[k + 1]]

\* Arrays are objects: two variables may hold the same one.  An array is named
\* by its place in heap; the arrays nothing refers to any more are dropped and
\* the others named in the order currentListeners, nextListeners, then the
\* `listeners` of the dispatch calls in progress, outermost first (0: not set).
RECURSIVE Order(_, _)
Order(refs, acc) ==
  IF refs = <<>> THEN acc
  ELSE LET x == Head(refs)
       IN  Order(Tail(refs),
                 IF x = 0 \/ \E j \in 1 .. Len(acc) : acc[j] = x THEN acc ELSE Append(acc, x))

Rank(order, x) == IF x = 0 THEN 0 ELSE CHOOSE j \in 1 .. Len(order) : order[j] = x

Arrays(h, cur, nxt, stk) ==
  LET order == Order(<<cur, nxt>> \o [k \in 1 .. Len(stk) |-> stk[k].listeners], <<>>)
  IN  /\ heap' = [j \in 1 .. Len(order) |-> h[order[j]]]
      /\ currentListeners' = Rank(order, cur)
      /\ nextListeners' = Rank(order, nxt)
      /\ stack' = [k \in 1 .. Len(stk) |-> [stk[k] EXCEPT !.listeners = Rank(order, @)]]

(* ---------------------------- createStore ----------------------------- *)
\* createStore(reducer, preloadedState) up to its own dispatch
Created(reducers, preloaded) ==
  /\ currentReducer \in reducers
  /\ currentState \in preloaded
  /\ heap = << <<>> >>
  /\ currentListeners = 1
  /\ nextListeners = 1
  /\ isDispatching = FALSE
  /\ subs = <<>>
  /\ stack = <<>>
  /\ pc = "init"
  /\ lastOp = Running("createStore")
  /\ fold = [reducer |-> currentReducer, value |-> currentState]
  /\ activeArg = currentReducer

\* a store with a reducer of the caller's own, and nothing built around it
NotExtended ==
  /\ objs = <<>>
  /\ composer = [finalReducers |-> <<>>, sanityError |-> NoError]
  /\ combined = NoCall
  /\ enhancer = NoEnhancer
  /\ observer = NoObserver
  /\ outer = NoOuter

Init ==
  /\ Created(Reducers, PreloadedStates)
  /\ limit = [subs |-> MaxSubs, depth |-> MaxDepth]
  /\ NotExtended

(* ---------------------------- the store ------------------------------- *)
\* nextListeners changed in place, never copied
ensureNoCopy == [h |-> heap, n |-> nextListeners]

\* ensureCanMutateNextListeners: the heap and nextListeners after it
ensureCanMutateNextListeners ==
  IF nextListeners = currentListeners
  THEN [h |-> Append(heap, heap[currentListeners]), n |-> Len(heap) + 1]
  ELSE [h |-> heap, n |-> nextListeners]

\* a guard that was left out
NoGuard == FALSE

\* the guards `if (isDispatching) throw` of the four operations
getStateRejects == isDispatching
subscribeRejects == isDispatching
unsubscribeRejects == isDispatching
dispatchRejects == isDispatching

\* getState()
getState ==
  /\ CanCall
  /\ IF getStateRejects
     THEN lastOp' = Raised("getState", InvalidOperationError, "guard")
     ELSE lastOp' = Did("getState", Ok, currentState, NoAction)
  /\ UNCHANGED <<currentReducer, currentState, isDispatching, arrayVars, subs, pc,
                 fold, activeArg, limit>>

\* subscribe(listener), which returns the closure numbered Len(subs) + 1
subscribe(listener) ==
  /\ CanCall
  /\ IF ~IsFunction(listener)
     THEN /\ lastOp' = Raised("subscribe", ConfigurationError, "args")
          /\ UNCHANGED <<arrayVars, subs>>
     ELSE IF subscribeRejects
     THEN /\ lastOp' = Raised("subscribe", InvalidOperationError, "guard")
          /\ UNCHANGED <<arrayVars, subs>>
     ELSE LET e == ensureCanMutateNextListeners
          IN  /\ Len(subs) < limit.subs
              /\ Arrays([e.h EXCEPT ![e.n] = Append(@, listener)],
                        currentListeners, e.n, stack)
              /\ subs' = Append(subs, [listener |-> listener, isSubscribed |-> TRUE])
              /\ lastOp' = Did("subscribe", Ok, Undefined, NoAction)
  /\ UNCHANGED <<currentReducer, currentState, isDispatching, pc, fold,
                 activeArg, limit>>

\* a closure with no isSubscribed test
neverUnsubscribed(k) == FALSE

\* `if (!isSubscribed) return`, in the closure of the k-th subscribe call
alreadyUnsubscribed(k) == ~subs[k].isSubscribed

\* the closure unsubscribe that the k-th subscribe call returned
unsubscribe(k) ==
  /\ CanCall
  /\ k \in 1 .. Len(subs)
  /\ IF alreadyUnsubscribed(k)
     THEN /\ lastOp' = Did("unsubscribe", Ok, Undefined, NoAction)
          /\ UNCHANGED <<arrayVars, subs>>
     ELSE IF unsubscribeRejects
     THEN /\ lastOp' = Raised("unsubscribe", InvalidOperationError, "guard")
          /\ UNCHANGED <<arrayVars, subs>>
     ELSE LET e     == ensureCanMutateNextListeners
              index == indexOf(e.h[e.n], subs[k].listener)
          IN  /\ subs' = [subs EXCEPT ![k].isSubscribed = FALSE]
              /\ Arrays([e.h EXCEPT ![e.n] = splice(@, index)],
                        currentListeners, e.n, stack)
              /\ lastOp' = Did("unsubscribe", Ok, Undefined, NoAction)
  /\ UNCHANGED <<currentReducer, currentState, isDispatching, pc, fold,
                 activeArg, limit>>

\* isPlainObject(action), of lodash
isPlainObject(action) == action.plain

\* the frame of a dispatch call whose reducer has just been called
Frame(via, action, reducer) ==
  [kind |-> "dispatch", phase |-> "reduce", via |-> via, action |-> action,
   reducer |-> reducer, state |-> currentState, listeners |-> 0, i |-> 0,
   fn |-> NoListener, invoked |-> <<>>, live |-> <<>>]

\* the frame of the call listeners[i]()
ListenerFrame(fn) ==
  [kind |-> "listener", phase |-> "body", via |-> "loop", action |-> NoAction,
   reducer |-> "none", state |-> Undefined, listeners |-> 0, i |-> 0,
   fn |-> fn, invoked |-> <<>>, live |-> <<>>]

\* dispatch with the isDispatching check made before the checks of the action
dispatchCallGuardFirst(via, action, reducer) ==
  IF dispatchRejects
  THEN /\ lastOp' = Raised(via, InvalidOperationError, "guard")
       /\ UNCHANGED <<isDispatching, arrayVars>>
  ELSE IF ~isPlainObject(action) \/ action.type = TypeUndefined
  THEN /\ lastOp' = Raised(via, ValidationError, "args")
       /\ UNCHANGED <<isDispatching, arrayVars>>
  ELSE /\ Depth < limit.depth
       /\ isDispatching' = TRUE
       /\ stack' = Append(stack, Frame(via, action, reducer))
       /\ lastOp' = Did("reducer:call", "running", Undefined, action)
       /\ UNCHANGED <<heap, currentListeners, nextListeners>>

\* dispatch(action) up to the call of the reducer; `via` is the caller
\* ("dispatch" for the store's user) and `reducer` the active reducer
dispatchCall(via, action, reducer) ==
  IF ~isPlainObject(action)
  THEN /\ lastOp' = Raised(via, ValidationError, "args")
       /\ UNCHANGED <<isDispatching, arrayVars>>
  ELSE IF action.type = TypeUndefined
  THEN /\ lastOp' = Raised(via, ValidationError, "args")
       /\ UNCHANGED <<isDispatching, arrayVars>>
  ELSE IF dispatchRejects
  THEN /\ lastOp' = Raised(via, InvalidOperationError, "guard")
       /\ UNCHANGED <<isDispatching, arrayVars>>
  ELSE /\ Depth < limit.depth
       /\ isDispatching' = TRUE
       /\ stack' = Append(stack, Frame(via, action, reducer))
       /\ lastOp' = Did("reducer:call", "running", Undefined, action)
       /\ UNCHANGED <<heap, currentListeners, nextListeners>>

\* the reducer was called
Started == lastOp'.op = "reducer:call"

\* createStore's own dispatch({ type: ActionTypes.INIT })
createStore ==
  /\ pc = "init"
  /\ pc' = "creating"
  /\ dispatchCall("createStore", InitAction, currentReducer)
  /\ fold' = FoldStep(InitAction)
  /\ UNCHANGED <<currentReducer, currentState, subs, activeArg, limit>>

\* dispatch(action), called by code that holds the store
dispatch(action) ==
  /\ CanCall
  /\ dispatchCall("dispatch", action, currentReducer)
  /\ fold' = IF Started THEN FoldStep(action) ELSE fold
  /\ UNCHANGED <<currentReducer, currentState, subs, pc, activeArg, limit>>

\* the assignment left out
swapReducerKept(nextReducer) == currentReducer

\* `currentReducer = nextReducer`: the reducer that becomes the active one
swapReducer(nextReducer) == nextReducer

\* a replaceReducer that makes the isDispatching check itself, before it
\* assigns currentReducer
replaceReducerGuarded(nextReducer) ==
  /\ CanCall
  /\ IF ~IsFunction(nextReducer)
     THEN /\ lastOp' = Raised("replaceReducer", ConfigurationError, "args")
          /\ UNCHANGED <<currentReducer, isDispatching, arrayVars, fold, activeArg>>
     ELSE IF dispatchRejects
     THEN /\ lastOp' = Raised("replaceReducer", InvalidOperationError, "guard")
          /\ UNCHANGED <<currentReducer, isDispatching, arrayVars, fold, activeArg>>
     ELSE /\ currentReducer' = swapReducer(nextReducer)
          /\ activeArg' = nextReducer
          /\ fold' = NoFold
          /\ dispatchCall("replaceReducer", InitAction, currentReducer')
  /\ UNCHANGED <<currentState, subs, pc, limit>>

\* replaceReducer(nextReducer)
replaceReducer(nextReducer) ==
  /\ CanCall
  /\ IF ~IsFunction(nextReducer)
     THEN /\ lastOp' = Raised("replaceReducer", ConfigurationError, "args")
          /\ UNCHANGED <<currentReducer, isDispatching, arrayVars, fold, activeArg>>
     ELSE /\ currentReducer' = swapReducer(nextReducer)
          /\ activeArg' = nextReducer
          /\ fold' = NoFold
          /\ dispatchCall("replaceReducer", InitAction, currentReducer')
  /\ UNCHANGED <<currentState, subs, pc, limit>>

\* what the caller of a dispatch gets when it returns: dispatch returns the
\* action, replaceReducer and createStore do not
Returned(frame) ==
  IF frame.via = "dispatch"
  THEN Did("dispatch", Ok, Undefined, frame.action)
  ELSE Did(frame.via, Ok, Undefined, NoAction)

\* createStore returns the handle, or raises what its dispatch raised
pcAfter(frame, ok) ==
  IF frame.via = "createStore" THEN (IF ok THEN "ready" ELSE "failed") ELSE pc

\* the result of the reducer not assigned to currentState
nextStateDropped(frame) == frame.state

\* `currentReducer(currentState, action)`, with the arguments of the call
nextState(frame) == Reduce(frame.reducer, frame.state, frame.action)

\* a try statement with no finally block: a reducer that throws leaves the flag set
afterTryNoFinally(threw) == threw

\* isDispatching when the try statement is left, the reducer having thrown or not
afterTry(threw) == FALSE

\* the reducer returns value: the finally block, the assignment of
\* currentState, and `var listeners = currentListeners = nextListeners`
reducerReturned(value) ==
  /\ InReducer
  /\ isDispatching' = afterTry(FALSE)
  /\ currentState' = value
  /\ Arrays(heap, nextListeners, nextListeners,
            [stack EXCEPT ![Len(stack)] =
               [@ EXCEPT !.phase = "notify", !.reducer = "none", !.state = Undefined,
                         !.listeners = nextListeners, !.i = 0,
                         !.live = LiveListeners(subs)]])
  /\ lastOp' = Did("reducer:return", "running", Undefined, Top.action)
  /\ UNCHANGED <<currentReducer, subs, pc, fold, activeArg, limit>>

\* a reducer the caller supplied returns
reducerReturns == reducerReturned(nextState(Top))

\* the reducer throws err: the finally block, and the error leaves dispatch
reducerThrows(err) ==
  /\ InReducer
  /\ isDispatching' = afterTry(TRUE)
  /\ Arrays(heap, currentListeners, nextListeners, Pop(stack))
  /\ pc' = pcAfter(Top, FALSE)
  /\ fold' = NoFold
  /\ lastOp' = Raised(Top.via, err, "reducer")
  /\ UNCHANGED <<currentReducer, currentState, subs, activeArg, limit>>

\* a loop that stops one listener short
loopStopsEarly(frame) == frame.i < Len(heap[frame.listeners]) - 1

\* the loop test `i < listeners.length`, on the array the loop holds
loopContinues(frame) == frame.i < Len(heap[frame.listeners])

\* listeners[i]()
callListener ==
  /\ InLoop
  /\ loopContinues(Top)
  /\ LET fn == heap[Top.listeners][Top.i + 1]
     IN  stack' = Append([stack EXCEPT ![Len(stack)].invoked = Append(@, fn)],
                         ListenerFrame(fn))
  /\ lastOp' = Running("listener:call")
  /\ UNCHANGED <<currentReducer, currentState, isDispatching, heap, currentListeners,
                 nextListeners, subs, pc, fold, activeArg, limit>>

\* a listener returns: i++
listenerReturns ==
  /\ InListener
  /\ stack' = [Pop(stack) EXCEPT ![Len(stack) - 1].i = @ + 1]
  /\ lastOp' = Running("listener:return")
  /\ UNCHANGED <<currentReducer, currentState, isDispatching, heap, currentListeners,
                 nextListeners, subs, pc, fold, activeArg, limit>>

\* listeners isolated from each other: the error is caught and the loop goes on
listenerThrowsCaught(err) ==
  /\ InListener
  /\ stack' = [Pop(stack) EXCEPT ![Len(stack) - 1].i = @ + 1]
  /\ lastOp' = Running("listener:return")
  /\ UNCHANGED <<currentReducer, currentState, isDispatching, heap, currentListeners,
                 nextListeners, subs, pc, fold, activeArg, limit>>

\* a listener throws err: nothing catches it, the error leaves dispatch
listenerThrows(err) ==
  /\ InListener
  /\ Arrays(heap, currentListeners, nextListeners, Pop(Pop(stack)))
  /\ pc' = pcAfter(stack[Len(stack) - 1], FALSE)
  /\ lastOp' = Raised(stack[Len(stack) - 1].via, err, "listener")
  /\ UNCHANGED <<currentReducer, currentState, isDispatching, subs, fold,
                 activeArg, limit>>

\* the loop is over: return action
dispatchReturns ==
  /\ InLoop
  /\ ~loopContinues(Top)
  /\ Arrays(heap, currentListeners, nextListeners, Pop(stack))
  /\ pc' = pcAfter(Top, TRUE)
  /\ lastOp' = Returned(Top)
  /\ UNCHANGED <<currentReducer, currentState, isDispatching, subs, fold,
                 activeArg, limit>>

(* ---------------------------- combineReducers ------------------------- *)
\* the loop of combineReducers: the entries of `reducers` that are functions
RECURSIVE finalReducersOf(_, _)
finalReducersOf(reducers, i) ==
  IF i > Len(Keys) THEN <<>>
  ELSE IF IsFunction(reducers[i])
       THEN <<[key |-> Keys[i], reducer |-> reducers[i]]>> \o finalReducersOf(reducers, i + 1)
       ELSE finalReducersOf(reducers, i + 1)

\* a sanity check that keeps the last failure it meets
RECURSIVE assertLastFailure(_, _)
assertLastFailure(reducers, i) ==
  IF i > Len(reducers) THEN NoError
  ELSE LET later == assertLastFailure(reducers, i + 1)
       IN  IF later # NoError THEN later
           ELSE IF SubReduce(reducers[i].reducer, Undefined, InitAction) = Undefined
           THEN InitError(reducers[i].key)
           ELSE IF SubReduce(reducers[i].reducer, Undefined, ProbeAction) = Undefined
           THEN ProbeError(reducers[i].key)
           ELSE NoError

\* assertReducerSanity(reducers), from the i-th key on: the error it throws
RECURSIVE assertReducerSanity(_, _)
assertReducerSanity(reducers, i) ==
  IF i > Len(reducers) THEN NoError
  ELSE IF SubReduce(reducers[i].reducer, Undefined, InitAction) = Undefined
  THEN InitError(reducers[i].key)
  ELSE IF SubReduce(reducers[i].reducer, Undefined, ProbeAction) = Undefined
  THEN ProbeError(reducers[i].key)
  ELSE assertReducerSanity(reducers, i + 1)

\* combineReducers(reducers): what the closure `combination` keeps
combineReducers(reducers) ==
  LET finalReducers == finalReducersOf(reducers, 1)
  IN  [finalReducers |-> finalReducers,
       sanityError   |-> assertReducerSanity(finalReducers, 1)]

\* `nextStateForKey !== previousStateForKey` left out: hasChanged stays false
neverChanged(previous, next) == FALSE

\* `nextStateForKey !== previousStateForKey`, of two values that are not objects
changed(previous, next) == next # previous

\* a loop that goes on after a reducer returned undefined
undefinedAllowed(next) == FALSE

\* `typeof nextStateForKey === 'undefined'`
isUndefined(next) == next = Undefined

\* the loop of combination from the i-th key on: state is the object given,
\* filled the object nextState as filled so far, calls the calls made so far
RECURSIVE combinationLoop(_, _, _, _, _, _)
combinationLoop(state, action, i, filled, hasChanged, calls) ==
  IF i > Len(composer.finalReducers)
  THEN [error |-> NoError, nextState |-> filled, hasChanged |-> hasChanged,
        calls |-> calls]
  ELSE LET key                 == composer.finalReducers[i].key
           reducer             == composer.finalReducers[i].reducer
           previousStateForKey == state[key]
           nextStateForKey     == SubReduce(reducer, previousStateForKey, action)
           called == Append(calls, [key |-> key, state |-> previousStateForKey,
                                    action |-> action])
       IN  IF isUndefined(nextStateForKey)
           THEN [error |-> UndefinedStateError(key, action), nextState |-> filled,
                 hasChanged |-> hasChanged, calls |-> called]
           ELSE combinationLoop(state, action, i + 1,
                                [filled EXCEPT ![key] = nextStateForKey],
                                hasChanged \/ changed(previousStateForKey, nextStateForKey),
                                called)

\* a composed reducer that forgets the failure of the sanity check
sanityForgotten == NoError

\* `if (sanityError)`: the error kept at composition time
sanityErrorKept == composer.sanityError

\* combination(state = {}, action), with the state objects h: the error it
\* throws, or the objects after it and the one it returns; `same` says that
\* the object returned is the one held by its parameter `state`
combination(h, given, action) ==
  LET d     == IF given = Undefined THEN Append(h, EmptyMap) ELSE h
      state == IF given = Undefined THEN Len(h) + 1 ELSE given
  IN  IF sanityErrorKept # NoError
      THEN [error |-> sanityErrorKept, calls |-> <<>>, h |-> d, value |-> Undefined,
            same |-> FALSE]
      ELSE LET l == combinationLoop(d[state], action, 1, EmptyMap, FALSE, <<>>)
           IN  IF l.error # NoError
               THEN [error |-> l.error, calls |-> l.calls, h |-> d, value |-> Undefined,
                     same |-> FALSE]
               ELSE IF l.hasChanged
               THEN [error |-> NoError, calls |-> l.calls, h |-> Append(d, l.nextState),
                     value |-> Len(d) + 1, same |-> FALSE]
               ELSE [error |-> NoError, calls |-> l.calls, h |-> d, value |-> state,
                     same |-> TRUE]

\* a call of the composed reducer, for whoever looks at it afterwards: the
\* object its parameter `state` held, the action, the calls it made of the
\* reducers of the keys, the error it threw or the object it returned, and
\* whether that is the object `state` held
Called(c, given, action) ==
  [calls |-> c.calls, error |-> c.error, same |-> c.same,
   state |-> IF given = Undefined THEN EmptyMap ELSE c.h[given],
   action |-> action,
   value |-> IF c.error = NoError THEN c.h[c.value] ELSE EmptyMap]

\* the composed reducer is the reducer of the dispatch call in progress
InCombination == InReducer /\ Top.reducer = Combination

\* the composed reducer returns to dispatch: of the state objects the one that
\* becomes currentState stays
combinationReturns ==
  /\ InCombination
  /\ LET c == combination(objs, Top.state, Top.action)
     IN  /\ c.error = NoError
         /\ objs' = <<c.h[c.value]>>
         /\ reducerReturned(1)
         /\ combined' = Called(c, Top.state, Top.action)
  /\ UNCHANGED composer

\* the composed reducer throws: the error leaves dispatch as a reducer's does
combinationThrows ==
  /\ InCombination
  /\ LET c == combination(objs, Top.state, Top.action)
     IN  /\ c.error # NoError
         /\ reducerThrows(ConfigurationError)
         /\ combined' = Called(c, Top.state, Top.action)
  /\ UNCHANGED <<objs, composer>>

\* the composed reducer called by the code that built it, not by a store, with
\* no state (given = FALSE) or with a state object of its own
callCombination(given, object, action) ==
  /\ stack = <<>>
  /\ LET h == IF given THEN Append(objs, object) ELSE objs
         c == combination(h, IF given THEN Len(h) ELSE Undefined, action)
     IN  combined' = Called(c, IF given THEN Len(h) ELSE Undefined, action)
  /\ UNCHANGED <<storeVars, objs, composer>>

(* ---------------------------- applyMiddleware ------------------------- *)
\* compose(...funcs): compose(f, g, h)(x) is f(g(h(x))), so what the result is
\* given goes through the first function first; compose() is the identity
RECURSIVE compose(_)
compose(funcs) ==
  IF funcs = <<>> THEN storeDispatch
  ELSE <<Head(funcs)>> \o compose(Tail(funcs))

RECURSIVE Reverse(_)
Reverse(seq) == IF seq = <<>> THEN <<>> ELSE Append(Reverse(Tail(seq)), Head(seq))

\* the chain composed in the opposite order
composedReversed(chain) == compose(Reverse(chain))

\* `dispatch = compose(...chain)(store.dispatch)`
composedDispatch(chain) == compose(chain)

\* a variable dispatch that is assigned the chain composed so far each time a
\* middleware has been set up
dispatchComposedEarly(chain) == compose(chain)

\* `var dispatch = store.dispatch`, which holds until the chain is composed
dispatchWhileMapping(chain) == storeDispatch

\* a middlewareAPI that holds store.dispatch itself, not the variable
dispatchSnapshot == storeDispatch

\* middlewareAPI.dispatch, `(action) => dispatch(action)`: the value the
\* variable dispatch has when it is called
middlewareAPIdispatch == enhancer.dispatch

\* the argument `next` of the middleware m: what the chain holds after m
nextOf(m) ==
  LET p == CHOOSE p \in 1 .. Len(enhancer.dispatch) : enhancer.dispatch[p] = m
  IN  SubSeq(enhancer.dispatch, p + 1, Len(enhancer.dispatch))

\* the frame of the call of middleware m with an action; via is the function
\* that was called: "store.dispatch" (of the store applyMiddleware returned),
\* "middlewareAPI.dispatch" or "next"
MiddlewareFrame(m, via, action) ==
  [kind |-> "middleware", phase |-> "body", via |-> via, action |-> action,
   reducer |-> "none", state |-> Undefined, listeners |-> 0, i |-> m,
   fn |-> NoListener, invoked |-> <<>>, live |-> <<>>]

\* the calls of a composed dispatch in progress
Entries ==
  Cardinality({k \in 1 .. Len(stack) : stack[k].kind = "middleware" /\ stack[k].via # "next"})

\* `middleware(middlewareAPI)` is running: applyMiddleware is mapping the middlewares
InSetup ==
  /\ pc = "ready"
  /\ stack = <<>>
  /\ ~enhancer.returned
  /\ Len(enhancer.chain) < Len(enhancer.middlewares)

\* a call of the dispatch function target: of store.dispatch, or of the first
\* middleware of a chain
callDispatch(target, via, action) ==
  IF target = storeDispatch
  THEN dispatch(action)
  ELSE /\ pc = "ready"
       /\ Entries < MaxEntries \/ via = "next"
       /\ stack' = Append(stack, MiddlewareFrame(Head(target), via, action))
       /\ lastOp' = Did("middleware:call", "running", Undefined, action)
       /\ UNCHANGED <<currentReducer, currentState, currentListeners, nextListeners,
                      isDispatching, heap, subs, pc, fold, activeArg, limit>>

\* `middleware(middlewareAPI)` returns: the next entry of chain
setupMiddleware ==
  /\ InSetup
  /\ LET chain == Append(enhancer.chain, enhancer.middlewares[Len(enhancer.chain) + 1])
     IN  enhancer' = [enhancer EXCEPT !.chain = chain,
                                      !.dispatch = dispatchWhileMapping(chain)]
  /\ UNCHANGED storeVars

\* `dispatch = compose(...chain)(store.dispatch)` and the return of the store
composeChain ==
  /\ pc = "ready"
  /\ stack = <<>>
  /\ ~enhancer.returned
  /\ Len(enhancer.chain) = Len(enhancer.middlewares)
  /\ enhancer' = [enhancer EXCEPT !.dispatch = composedDispatch(enhancer.chain),
                                  !.returned = TRUE]
  /\ UNCHANGED storeVars

\* the owner of the store applyMiddleware returned is running
HoldsStore == pc = "ready" /\ enhancer.returned /\ stack = <<>>

\* dispatch(action) of the store applyMiddleware returned
enhancedDispatch(action) ==
  /\ HoldsStore
  /\ callDispatch(enhancer.dispatch, "store.dispatch", action)
  /\ UNCHANGED enhancer

\* code that a middleware left to run later is running, the store built
Deferred ==
  /\ pc = "ready"
  /\ stack = <<>>
  /\ enhancer.returned
  /\ enhancer.middlewares # <<>>

\* middlewareAPI.dispatch(action), called by a middleware: while it is set up,
\* while it handles an action, or later
apiDispatch(action) ==
  /\ InSetup \/ InMiddleware \/ Deferred
  /\ callDispatch(middlewareAPIdispatch, "middlewareAPI.dispatch", action)
  /\ UNCHANGED enhancer

\* next(action), called by a middleware that handles an action
next(action) ==
  /\ InMiddleware
  /\ callDispatch(nextOf(Top.i), "next", action)
  /\ UNCHANGED enhancer

\* a middleware returns to its caller
middlewareReturns ==
  /\ InMiddleware
  /\ stack' = Pop(stack)
  /\ lastOp' = Did("middleware:return", Ok, Undefined, Top.action)
  /\ UNCHANGED <<currentReducer, currentState, currentListeners, nextListeners,
                 isDispatching, heap, subs, pc, fold, activeArg, limit, enhancer>>

\* The callers.  In every scenario the body of a reducer or of a listener may
\* call the store; the scenarios differ in what the callers pass and in
\* whether listeners dispatch.

(* ---------------------------- observable ------------------------------ *)
\* no call of observeState before it is subscribed
observeStateLater(hasNext, received) == received

\* function observeState: `if (observer.next) observer.next(getState())`,
\* called outside a reducer; received is what next has received so far
observeState(hasNext, received) ==
  IF hasNext THEN Append(received, currentState) ELSE received

\* `observeState()`, the call observable().subscribe makes itself
observeStateNow(hasNext, received) == observeState(hasNext, received)

\* observable().subscribe(o), which returns the closure that subscribe
\* returns for observeState
observableSubscribe(o) ==
  /\ CanCall
  /\ observer.closure = 0
  /\ IF ~o.object
     THEN /\ lastOp' = Raised("observable.subscribe", TypeError, "args")
          /\ UNCHANGED <<currentReducer, currentState, isDispatching, arrayVars, subs,
                         pc, fold, activeArg, limit, observer>>
     ELSE IF (o.next /\ getStateRejects) \/ subscribeRejects
     THEN /\ lastOp' = Raised("observable.subscribe", InvalidOperationError, "guard")
          /\ UNCHANGED <<currentReducer, currentState, isDispatching, arrayVars, subs,
                         pc, fold, activeArg, limit, observer>>
     ELSE /\ subscribe(ObserveStateListener)
          /\ observer' = [next |-> o.next, closure |-> Len(subs) + 1,
                          received |-> observeStateNow(o.next, observer.received)]

\* the closures whose listener is subscribed
Subscribed == {k \in 1 .. Len(subs) : subs[k].isSubscribed}

\* dispatch(action), with what is recorded when no other dispatch is in progress
outermostDispatch(action) ==
  /\ dispatch(action)
  /\ IF Started /\ stack = <<>>
     THEN /\ outer' = [live |-> Subscribed, seen |-> {}, posts |-> <<>>]
          /\ observer' = [observer EXCEPT !.received = <<>>]
     ELSE UNCHANGED <<outer, observer>>

\* the reducer returns and currentState is assigned
stateAssigned ==
  /\ reducerReturns
  /\ outer' = [outer EXCEPT !.seen = {}, !.posts = Append(@, currentState')]
  /\ UNCHANGED observer

\* listeners[i](), which is observeState when the observer's turn has come
listenerCalled ==
  /\ callListener
  /\ LET fn == heap[Top.listeners][Top.i + 1]
     IN  /\ outer' = [outer EXCEPT !.seen = @ \cup {fn}]
         /\ observer' = IF fn = ObserveStateListener
                         THEN [observer EXCEPT !.received = observeState(observer.next, @)]
                         ELSE observer


\* Spec: every operation with every kind of argument, from the owner of the
\* store, from reducers and from listeners; listeners do not dispatch
Next ==
  \/ createStore /\ UNCHANGED extVars
  \/ getState /\ UNCHANGED extVars
  \/ \E l \in Listeners \cup {NotCallable} : subscribe(l) /\ UNCHANGED extVars
  \/ \E k \in 1 .. MaxSubs : unsubscribe(k) /\ UNCHANGED extVars
  \/ \E a \in Actions : ~InListener /\ dispatch(a) /\ UNCHANGED extVars
  \/ \E r \in Reducers \cup {NotCallable} : ~InListener /\ replaceReducer(r) /\ UNCHANGED extVars
  \/ reducerReturns /\ UNCHANGED extVars
  \/ \E e \in Thrown : reducerThrows(e) /\ UNCHANGED extVars
  \/ callListener /\ UNCHANGED extVars
  \/ listenerReturns /\ UNCHANGED extVars
  \/ \E e \in Thrown : listenerThrows(e) /\ UNCHANGED extVars
  \/ dispatchReturns /\ UNCHANGED extVars

Spec == Init /\ [][Next]_vars

\* SpecOrder: one reducer that returns; the owner and the listeners subscribe
\* and unsubscribe, the owner dispatches, listeners return or throw
InitOrder ==
  /\ Created({"counter"}, {Undefined})
  /\ limit = [subs |-> OrderSubs, depth |-> MaxDepth]
  /\ NotExtended

NextOrder ==
  \/ createStore /\ UNCHANGED extVars
  \/ \E l \in Listeners : ~InReducer /\ subscribe(l) /\ UNCHANGED extVars
  \/ \E k \in 1 .. OrderSubs : ~InReducer /\ unsubscribe(k) /\ UNCHANGED extVars
  \/ stack = <<>> /\ dispatch([plain |-> TRUE, type |-> "INC"]) /\ UNCHANGED extVars
  \/ reducerReturns /\ UNCHANGED extVars
  \/ callListener /\ UNCHANGED extVars
  \/ listenerReturns /\ UNCHANGED extVars
  \/ listenerThrows(UserError) /\ UNCHANGED extVars
  \/ dispatchReturns /\ UNCHANGED extVars

SpecOrder == InitOrder /\ [][NextOrder]_vars

\* SpecNested: listeners dispatch, and replace the reducer, while a dispatch
\* is notifying them
InitNested ==
  /\ Created(Reducers, PreloadedStates)
  /\ limit = [subs |-> NestedSubs, depth |-> NestedDepth]
  /\ NotExtended

NextNested ==
  \/ createStore /\ UNCHANGED extVars
  \/ getState /\ UNCHANGED extVars
  \/ ~InReducer /\ subscribe("f") /\ UNCHANGED extVars
  \/ \E k \in 1 .. NestedSubs : ~InReducer /\ unsubscribe(k) /\ UNCHANGED extVars
  \/ \E a \in UserActions : ~InReducer /\ dispatch(a) /\ UNCHANGED extVars
  \/ \E r \in Reducers : ~InReducer /\ replaceReducer(r) /\ UNCHANGED extVars
  \/ reducerReturns /\ UNCHANGED extVars
  \/ reducerThrows(UserError) /\ UNCHANGED extVars
  \/ callListener /\ UNCHANGED extVars
  \/ listenerReturns /\ UNCHANGED extVars
  \/ listenerThrows(UserError) /\ UNCHANGED extVars
  \/ dispatchReturns /\ UNCHANGED extVars

SpecNested == InitNested /\ [][NextNested]_vars

\* SpecCombine: the reducer of the store is a composed reducer; the owner
\* subscribes and dispatches
InitCombine ==
  /\ composer \in {combineReducers(reducers) : reducers \in ReducerMaps}
  /\ \/ objs = <<>> /\ currentState = Undefined
     \/ objs \in {<<m>> : m \in PreloadedMaps} /\ currentState = 1
  /\ combined = NoCall
  /\ currentReducer = Combination
  /\ heap = << <<>> >>
  /\ currentListeners = 1
  /\ nextListeners = 1
  /\ isDispatching = FALSE
  /\ subs = <<>>
  /\ stack = <<>>
  /\ pc = "init"
  /\ lastOp = Running("createStore")
  /\ fold = NoFold
  /\ activeArg = Combination
  /\ limit = [subs |-> CombineSubs, depth |-> MaxDepth]
  /\ enhancer = NoEnhancer
  /\ observer = NoObserver
  /\ outer = NoOuter

NextCombine ==
  \/ createStore /\ UNCHANGED extVars
  \/ stack = <<>> /\ subscribe("f") /\ UNCHANGED extVars
  \/ \E a \in UserActions : stack = <<>> /\ dispatch(a) /\ UNCHANGED extVars
  \/ combinationReturns /\ UNCHANGED <<middlewareVars, observeVars>>
  \/ combinationThrows /\ UNCHANGED <<middlewareVars, observeVars>>
  \/ \E given \in BOOLEAN, object \in PreloadedMaps, action \in UserActions \cup {InitAction} :
       callCombination(given, object, action) /\ UNCHANGED <<middlewareVars, observeVars>>
  \/ callListener /\ UNCHANGED extVars
  \/ listenerReturns /\ UNCHANGED extVars
  \/ dispatchReturns /\ UNCHANGED extVars

SpecCombine == InitCombine /\ [][NextCombine]_vars

\* SpecMiddleware: applyMiddleware(...middlewares)(createStore)(reducer,
\* preloadedState); the middlewares call middlewareAPI.dispatch, and next with
\* the action they were given; the owner of the store subscribes, dispatches
\* and replaces the reducer, and so do the listeners
InitMiddleware ==
  /\ Created({"counter"}, {Undefined})
  /\ limit = [subs |-> MiddlewareSubs, depth |-> MaxDepth]
  /\ objs = <<>>
  /\ composer = [finalReducers |-> <<>>, sanityError |-> NoError]
  /\ combined = NoCall
  /\ enhancer \in {[middlewares |-> ms, chain |-> <<>>, dispatch |-> storeDispatch,
                    returned |-> FALSE] : ms \in MiddlewareArgs}
  /\ observer = NoObserver
  /\ outer = NoOuter

NextMiddleware ==
  \/ createStore /\ UNCHANGED extVars
  \/ setupMiddleware /\ UNCHANGED <<combineVars, observeVars>>
  \/ composeChain /\ UNCHANGED <<combineVars, observeVars>>
  \/ \E a \in UserActions : enhancedDispatch(a) /\ UNCHANGED <<combineVars, observeVars>>
  \/ \E a \in UserActions : apiDispatch(a) /\ UNCHANGED <<combineVars, observeVars>>
  \/ \E a \in UserActions : InMiddleware /\ a = Top.action /\ next(a) /\ UNCHANGED <<combineVars, observeVars>>
  \/ middlewareReturns /\ UNCHANGED <<combineVars, observeVars>>
  \/ (InMiddleware \/ InSetup) /\ getState /\ UNCHANGED extVars
  \/ HoldsStore /\ subscribe("f") /\ UNCHANGED extVars
  \/ \E r \in Reducers : (HoldsStore \/ InListener) /\ replaceReducer(r) /\ UNCHANGED extVars
  \/ reducerReturns /\ UNCHANGED extVars
  \/ callListener /\ UNCHANGED extVars
  \/ listenerReturns /\ UNCHANGED extVars
  \/ dispatchReturns /\ UNCHANGED extVars

SpecMiddleware == InitMiddleware /\ [][NextMiddleware]_vars

\* SpecObserve: a listener and an observer; the owner of the store and the
\* bodies of the listener and of next subscribe, unsubscribe and dispatch,
\* and no reducer or listener throws
InitObserve ==
  /\ Created({"counter"}, {Undefined})
  /\ limit = [subs |-> ObserveSubs, depth |-> ObserveDepth]
  /\ NotExtended

NextObserve ==
  \/ createStore /\ UNCHANGED extVars
  \/ ~InReducer /\ subscribe("f") /\ UNCHANGED extVars
  \/ \E o \in Observers :
       observableSubscribe(o) /\ UNCHANGED <<combineVars, middlewareVars, outer>>
  \/ \E k \in 1 .. ObserveSubs : ~InReducer /\ unsubscribe(k) /\ UNCHANGED extVars
  \/ ~InReducer /\ (stack = <<>> \/ Len(outer.posts) < ObservePosts)
       /\ outermostDispatch([plain |-> TRUE, type |-> "INC"])
       /\ UNCHANGED <<combineVars, middlewareVars>>
  \/ stateAssigned /\ UNCHANGED <<combineVars, middlewareVars>>
  \/ listenerCalled /\ UNCHANGED <<combineVars, middlewareVars>>
  \/ listenerReturns /\ UNCHANGED extVars
  \/ dispatchReturns /\ UNCHANGED extVars

SpecObserve == InitObserve /\ [][NextObserve]_vars

(* ---------------------------- claims ---------------------------------- *)
WellFormed == UserActions \cup {InitAction}

\* the store as its callers can observe it, the calls in progress included
UnchangedStore ==
  UNCHANGED <<currentReducer, currentState, isDispatching, heap, currentListeners,
              nextListeners, subs, stack>>

\* what the listener list of the store holds
ListenerList == heap[nextListeners]

\* C1: while a reducer is executing, dispatch of a well-formed action raises
\* InvalidOperationError and changes nothing: no reducer call is started, no
\* listener is called, currentState and isDispatching keep their values; and
\* isDispatching is true for as long as the reducer is executing.
C1_ReducerMayNotDispatch ==
  /\ [](InReducer => isDispatching)
  /\ [][\A a \in WellFormed :
          (InReducer /\ dispatch(a)) =>
             /\ lastOp' = Raised("dispatch", InvalidOperationError, "guard")
             /\ UnchangedStore
             /\ isDispatching']_vars

\* a reducer has called dispatch with a well-formed action and is still running
C1_Witness ==
  /\ InReducer
  /\ isDispatching
  /\ lastOp = Raised("dispatch", InvalidOperationError, "guard")

\* C2: isDispatching is true exactly while a reducer is executing, so it is
\* false once a dispatch call that started the reducer has ended, however it
\* ended.  When the reducer raises, its error reaches the caller of dispatch,
\* isDispatching is false, currentState is the value it had before the call
\* and no listener is called; after that getState, subscribe and dispatch
\* succeed.
C2_FlagResetOnEveryExit ==
  /\ [](isDispatching <=> InReducer)
  /\ [][\A e \in Thrown :
          reducerThrows(e) =>
             /\ lastOp' = Raised(Top.via, e, "reducer")
             /\ ~isDispatching'
             /\ currentState' = Top.state
             /\ currentState' = currentState
             /\ stack' = Pop(stack)
             /\ UNCHANGED <<heap, currentListeners, nextListeners, subs>>]_vars
  /\ [][(lastOp.at = "reducer" /\ CanCall) =>
          /\ getState => lastOp' = Did("getState", Ok, currentState, NoAction)
          /\ \A l \in Listeners :
               subscribe(l) => (lastOp'.outcome = Ok /\ Len(subs') = Len(subs) + 1)
          /\ \A a \in WellFormed :
               dispatch(a) => (lastOp'.op = "reducer:call" /\ InReducer')]_vars

\* the reducer of a dispatch raised while listeners were subscribed
C2_Witness ==
  /\ lastOp = Raised("dispatch", UserError, "reducer")
  /\ ~isDispatching
  /\ stack = <<>>
  /\ Len(ListenerList) > 0
  /\ pc = "ready"

\* C3 as it was stated: while a reducer is executing, getState, subscribe and
\* every call of an unsubscribe closure raise InvalidOperationError and change
\* nothing.
C3_Original ==
  [][InReducer =>
       /\ getState => lastOp'.outcome = InvalidOperationError
       /\ \A l \in Listeners : subscribe(l) => lastOp'.outcome = InvalidOperationError
       /\ \A k \in 1 .. MaxSubs :
            unsubscribe(k) => lastOp'.outcome = InvalidOperationError]_vars

\* C3, amended: while a reducer is executing, getState, subscribe(listener) and
\* a call of an unsubscribe closure that has not yet unsubscribed raise
\* InvalidOperationError and leave the state and the listener arrays as they
\* are (a closure that has already unsubscribed returns, to no effect); when no
\* reducer is executing, inside a listener too, the three succeed: getState
\* returns currentState, subscribe appends the listener to the listener list,
\* unsubscribe marks its closure unsubscribed.
C3_GuardedWhileReducing ==
  /\ [][InReducer =>
          /\ getState =>
               (lastOp' = Raised("getState", InvalidOperationError, "guard") /\ UnchangedStore)
          /\ \A l \in Listeners :
               subscribe(l) =>
                 (lastOp' = Raised("subscribe", InvalidOperationError, "guard")
                    /\ UnchangedStore)
          /\ \A k \in 1 .. MaxSubs :
               unsubscribe(k) =>
                 /\ UnchangedStore
                 /\ IF subs[k].isSubscribed
                    THEN lastOp' = Raised("unsubscribe", InvalidOperationError, "guard")
                    ELSE lastOp'.outcome = Ok]_vars
  /\ [][(CanCall /\ ~InReducer) =>
          /\ getState => lastOp' = Did("getState", Ok, currentState, NoAction)
          /\ \A l \in Listeners :
               subscribe(l) =>
                 /\ lastOp'.outcome = Ok
                 /\ heap'[nextListeners'] = Append(ListenerList, l)
          /\ \A k \in 1 .. MaxSubs :
               unsubscribe(k) =>
                 /\ lastOp'.outcome = Ok
                 /\ ~subs'[k].isSubscribed
                 /\ Len(heap'[nextListeners']) =
                      Len(ListenerList) - (IF subs[k].isSubscribed THEN 1 ELSE 0)]_vars

\* a reducer has called an unsubscribe closure that was still subscribed
C3_Witness ==
  /\ InReducer
  /\ lastOp = Raised("unsubscribe", InvalidOperationError, "guard")
  /\ \E k \in 1 .. Len(subs) : subs[k].isSubscribed

\* C7: dispatch of an action that is not a plain object, or whose type is
\* undefined, raises ValidationError and changes nothing, whether or not a
\* reducer is executing.
C7_MalformedActionRejected ==
  [][\A a \in MalformedActions :
       dispatch(a) =>
         /\ lastOp' = Raised("dispatch", ValidationError, "args")
         /\ UnchangedStore]_vars

\* a reducer has dispatched a malformed action
C7_Witness ==
  /\ InReducer
  /\ isDispatching
  /\ lastOp = Raised("dispatch", ValidationError, "args")

\* the dispatch calls that are notifying listeners
Passes == {k \in 1 .. Len(stack) : stack[k].kind = "dispatch" /\ stack[k].phase = "notify"}
\* the loop of the innermost dispatch has called every listener of its array
PassOver == InLoop /\ ~loopContinues(Top)

\* seq without its j-th element
Without(seq, j) == [n \in 1 .. (Len(seq) - 1) |-> IF n < j THEN seq[n] ELSE seq[n + 1]]

\* C4: a dispatch notifies the subscriptions that are live when its reducer
\* has finished, each once: a listener subscribed during the pass is not
\* called for that subscription in this pass, a listener unsubscribed during
\* the pass is still called; the next dispatch takes the list as it then is.
C4_PassNotifiesSnapshot ==
  \A k \in Passes : \A f \in Listeners :
    /\ Count(stack[k].invoked, f) <= Count(stack[k].live, f)
    /\ (k = Len(stack) /\ PassOver) => Count(stack[k].invoked, f) = Count(stack[k].live, f)

\* a pass is over during which one listener was subscribed and another
\* unsubscribed
C4_Witness ==
  /\ PassOver
  /\ \E f \in Listeners : Count(LiveListeners(subs), f) > Count(Top.live, f)
  /\ \E f \in Listeners : /\ Count(LiveListeners(subs), f) < Count(Top.live, f)
                          /\ Count(Top.invoked, f) = Count(Top.live, f)

\* C5: a dispatch that succeeds calls the listeners of the live subscriptions
\* in the order in which their subscribe calls were made.
C5_RegistrationOrder ==
  PassOver => Top.invoked = Top.live

\* C8: when a listener raises, the error reaches the caller of dispatch, the
\* listeners before it and it have been called once each and none after it is
\* called, the state the reducer computed stays, isDispatching is false; the
\* pass of every dispatch starts at the first entry of the listener list.
C8_ListenerErrorAbortsPass ==
  /\ [][listenerThrows(UserError) =>
          LET d == stack[Len(stack) - 1]
          IN  /\ lastOp' = Raised(d.via, UserError, "listener")
              /\ d.invoked = SubSeq(heap[d.listeners], 1, d.i + 1)
              /\ stack' = Pop(Pop(stack))
              /\ currentState' = currentState
              /\ currentState' = fold.value
              /\ ~isDispatching'
              /\ subs' = subs
              /\ heap'[nextListeners'] = ListenerList]_vars
  /\ [][reducerReturns =>
          /\ Top'.i = 0
          /\ Top'.invoked = <<>>
          /\ heap'[Top'.listeners] = ListenerList]_vars

\* the first of two listeners raised: the dispatch is over, the new state kept
C8_Witness ==
  /\ lastOp = Raised("dispatch", UserError, "listener")
  /\ stack = <<>>
  /\ ~isDispatching
  /\ Len(ListenerList) >= 2
  /\ currentState = fold.value
  /\ currentState # 0

\* C10: a call of an unsubscribe closure that is still subscribed, made while
\* no reducer is executing, removes one entry holding the closure's own
\* listener and nothing else; any other call of a closure changes nothing; so
\* for each listener function the listener list holds as many entries as there
\* are closures of it still subscribed.
C10_UnsubscribeIdempotent ==
  /\ [](\A f \in Listeners : Count(ListenerList, f) = Count(LiveListeners(subs), f))
  /\ [][\A k \in 1 .. Len(subs) :
          unsubscribe(k) =>
            IF subs[k].isSubscribed /\ ~isDispatching
            THEN /\ \E j \in 1 .. Len(ListenerList) :
                      /\ ListenerList[j] = subs[k].listener
                      /\ heap'[nextListeners'] = Without(ListenerList, j)
                 /\ subs' = [subs EXCEPT ![k].isSubscribed = FALSE]
            ELSE /\ heap'[nextListeners'] = ListenerList
                 /\ subs' = subs]_vars

\* of two closures of the same listener one has unsubscribed, and a closure
\* has just been called
C10_Witness ==
  /\ lastOp = Did("unsubscribe", Ok, Undefined, NoAction)
  /\ Len(subs) = 2
  /\ subs[1].listener = subs[2].listener
  /\ ~subs[1].isSubscribed
  /\ subs[2].isSubscribed
  /\ ListenerList = <<subs[2].listener>>

\* C6: createStore calls the reducer with (preloadedState, INIT); every
\* dispatch calls the active reducer with the current state and its action and
\* stores the result, so while every reducer call returns the state is the
\* reducer folded over INIT and the actions dispatched; dispatch returns the
\* action it was given.
C6_StateIsFoldOfActions ==
  /\ []((fold # NoFold /\ ~isDispatching) => currentState = fold.value)
  /\ [][createStore => Top' = Frame("createStore", InitAction, currentReducer)]_vars
  /\ [][\A a \in UserActions :
          (dispatch(a) /\ Started) => Top' = Frame("dispatch", a, currentReducer)]_vars
  /\ [][(dispatchReturns /\ Top.via = "dispatch") =>
          lastOp' = Did("dispatch", Ok, Undefined, Top.action)]_vars

\* a dispatch made by a listener has returned to it, after two INC
C6_Witness ==
  /\ InListener
  /\ lastOp = Did("dispatch", Ok, Undefined, [plain |-> TRUE, type |-> "INC"])
  /\ fold = [reducer |-> "counter", value |-> 2]
  /\ currentState = 2

\* C9: replaceReducer(R2) called outside a reducer makes R2 the active reducer
\* and calls it with (current state, INIT); the result becomes the state and
\* the listeners live at that moment are notified once each, as by any
\* dispatch; every reducer call started
\* afterwards uses the reducer last handed to the store; a non-callable
\* argument raises ConfigurationError and changes nothing.
C9_ReplaceReducer ==
  /\ [][\A r \in Reducers :
          (~InReducer /\ replaceReducer(r)) =>
             /\ currentReducer' = r
             /\ Top' = Frame("replaceReducer", InitAction, r)
             /\ isDispatching']_vars
  /\ [][reducerReturns =>
          /\ currentState' = Reduce(Top.reducer, Top.state, Top.action)
          /\ Top'.live = LiveListeners(subs)]_vars
  /\ []((PassOver /\ Top.via = "replaceReducer") =>
          \A f \in Listeners : Count(Top.invoked, f) = Count(Top.live, f))
  /\ [][Started => Top'.reducer = activeArg']_vars
  /\ [][replaceReducer(NotCallable) =>
          /\ lastOp' = Raised("replaceReducer", ConfigurationError, "args")
          /\ UnchangedStore]_vars

\* replaceReducer has returned after notifying a listener
C9_Witness ==
  /\ lastOp = Did("replaceReducer", Ok, Undefined, NoAction)
  /\ stack = <<>>
  /\ currentReducer = "resetter"
  /\ currentState = 0
  /\ Len(ListenerList) > 0

\* the composed reducer has been called
CombinationCalled == combined.action # NoAction

\* what the reducer of the i-th surviving key returns in the call last made
ResultForKey(i) ==
  SubReduce(composer.finalReducers[i].reducer,
            combined.state[composer.finalReducers[i].key], combined.action)

SurvivingKeys == 1 .. Len(composer.finalReducers)

\* C11: a call of a composed reducer that has no sanity failure, in which the
\* reducer of every surviving key returns a defined value, calls the reducer of
\* each surviving key once, in the order of insertion, with (state[key],
\* action); when every result is the value state[key] had, it returns the
\* object its parameter state held; otherwise it returns another object whose
\* keys are the surviving keys, each with the result of its reducer.  A
\* dispatch makes the object returned the state of the store.
C11_CombinationIdentityOrNewMap ==
  /\ [](( /\ CombinationCalled
          /\ composer.sanityError = NoError
          /\ \A i \in SurvivingKeys : ResultForKey(i) # Undefined ) =>
         /\ combined.error = NoError
         /\ combined.calls =
              [i \in SurvivingKeys |->
                 [key |-> composer.finalReducers[i].key,
                  state |-> combined.state[composer.finalReducers[i].key],
                  action |-> combined.action]]
         /\ IF \A i \in SurvivingKeys :
                 ResultForKey(i) = combined.state[composer.finalReducers[i].key]
            THEN combined.same /\ combined.value = combined.state
            ELSE /\ ~combined.same
                 /\ combined.value =
                      [k \in KeySet |->
                         IF \E i \in SurvivingKeys : composer.finalReducers[i].key = k
                         THEN ResultForKey(CHOOSE i \in SurvivingKeys :
                                             composer.finalReducers[i].key = k)
                         ELSE Undefined])
  /\ [][combinationReturns =>
          /\ combined'.state = (IF currentState = Undefined THEN EmptyMap
                                ELSE objs[currentState])
          /\ combined'.action = Top.action
          /\ objs'[currentState'] = combined'.value]_vars

\* a dispatch of INC on a store whose state is {a: 1, b: 1} and whose reducer
\* is composed of one reducer, under a, that returns the state it gets: the
\* state object is the one it was
C11_Witness ==
  /\ lastOp = Did("dispatch", Ok, Undefined, [plain |-> TRUE, type |-> "INC"])
  /\ composer.finalReducers = <<[key |-> "a", reducer |-> "keep"]>>
  /\ combined.same
  /\ combined.action.type = "INC"
  /\ combined.state = [k \in KeySet |-> 1]
  /\ objs[currentState] = [k \in KeySet |-> 1]

\* the reducer of the i-th surviving key fails the sanity check
FailsSanity(i) ==
  \/ SubReduce(composer.finalReducers[i].reducer, Undefined, InitAction) = Undefined
  \/ SubReduce(composer.finalReducers[i].reducer, Undefined, ProbeAction) = Undefined

\* the failure of the first surviving key, in the order of insertion, whose
\* reducer fails the sanity check
FirstFailure ==
  IF \A i \in SurvivingKeys : ~FailsSanity(i) THEN NoError
  ELSE LET i == CHOOSE i \in SurvivingKeys :
                  FailsSanity(i) /\ \A j \in 1 .. (i - 1) : ~FailsSanity(j)
           r == composer.finalReducers[i]
       IN  IF SubReduce(r.reducer, Undefined, InitAction) = Undefined
           THEN InitError(r.key) ELSE ProbeError(r.key)

\* C12: when the reducer of some surviving key returns undefined for
\* (undefined, INIT) or for (undefined, probe action), the composed reducer
\* keeps the failure of the first such key in the order of insertion; every
\* call of it, with any state and action, raises that error and calls no
\* reducer of a key; what the composed reducer keeps never changes.  A store
\* created with it raises the error from createStore.
C12_SanityErrorKept ==
  /\ [](composer.sanityError = FirstFailure)
  /\ []((CombinationCalled /\ \E i \in SurvivingKeys : FailsSanity(i)) =>
          /\ combined.error = FirstFailure
          /\ combined.error # NoError
          /\ combined.calls = <<>>)
  /\ [][composer' = composer]_vars
  /\ [][(combinationThrows /\ composer.sanityError # NoError) =>
          /\ lastOp' = Raised(Top.via, ConfigurationError, "reducer")
          /\ combined'.error = composer.sanityError
          /\ currentState' = currentState
          /\ ~isDispatching']_vars

\* the reducer under a fails the probe and the one under b the check with
\* INIT: createStore has raised, and a later call, with a state and INC, has
\* raised the failure of a
C12_Witness ==
  /\ pc = "failed"
  /\ composer.finalReducers = <<[key |-> "a", reducer |-> "initOnly"],
                                [key |-> "b", reducer |-> "noDefault"]>>
  /\ combined.error = ProbeError("a")
  /\ combined.action.type = "INC"
  /\ combined.state = [k \in KeySet |-> 1]

\* in the call last made the reducer of some surviving key returned undefined
SomeResultUndefined == \E i \in SurvivingKeys : ResultForKey(i) = Undefined
FirstUndefined ==
  CHOOSE i \in SurvivingKeys :
    ResultForKey(i) = Undefined /\ \A j \in 1 .. (i - 1) : ResultForKey(j) # Undefined

\* C17: when, in a call of a composed reducer that has no sanity failure, the
\* reducer of a surviving key returns undefined for (state[key], action), the
\* call raises the error that names that key and the type of the action: the
\* reducers of the keys before it and its own have been called, those of later
\* keys are not, and no object is returned.  When dispatch made the call, the
\* error leaves dispatch as ConfigurationError, the state of the store is the
\* object it was, no listener is called and isDispatching is false.
C17_UndefinedResultRaises ==
  /\ []((CombinationCalled /\ composer.sanityError = NoError /\ SomeResultUndefined) =>
          LET r == composer.finalReducers[FirstUndefined]
          IN  /\ combined.error = UndefinedStateError(r.key, combined.action)
              /\ combined.calls =
                   [i \in 1 .. FirstUndefined |->
                      [key |-> composer.finalReducers[i].key,
                       state |-> combined.state[composer.finalReducers[i].key],
                       action |-> combined.action]]
              /\ ~combined.same
              /\ combined.value = EmptyMap)
  /\ [][combinationThrows =>
          /\ lastOp' = Raised(Top.via, ConfigurationError, "reducer")
          /\ combined'.error # NoError
          /\ currentState' = currentState
          /\ objs' = objs
          /\ ~isDispatching'
          /\ stack' = Pop(stack)
          /\ UNCHANGED <<heap, currentListeners, nextListeners, subs>>]_vars

\* dispatch of INC on a store with a listener and the state {a: 1, b: 1}: the
\* reducer under a returned 2, the one under b undefined, and dispatch raised
C17_Witness ==
  /\ lastOp = Raised("dispatch", ConfigurationError, "reducer")
  /\ composer.finalReducers = <<[key |-> "a", reducer |-> "count"],
                                [key |-> "b", reducer |-> "dropOnInc"]>>
  /\ combined.error = UndefinedStateError("b", [plain |-> TRUE, type |-> "INC"])
  /\ Len(combined.calls) = 2
  /\ Len(ListenerList) = 1
  /\ stack = <<>>
  /\ ~isDispatching
  /\ currentState # Undefined
  /\ objs[currentState] = [k \in KeySet |-> 1]

\* the number of middlewares applyMiddleware was given
NumMiddlewares == Len(enhancer.middlewares)

\* the frame below the k-th of the stack is the call of middleware m
CalledBy(k, m) == k > 1 /\ stack[k - 1].kind = "middleware" /\ stack[k - 1].i = m

\* C13: on a store built by applyMiddleware(m1, ..., mn), dispatch(action)
\* calls m1 with the action (with no middleware, the dispatch of the base
\* store); next(action) called by mj calls m(j+1), and called by mn the
\* dispatch of the base store, where alone the reducer and the listeners run;
\* so mj is running only inside a call next made by m(j-1), and a call
\* returns to the one that made it: the base dispatch to mn, mj to m(j-1).
\* The chain is composed once, before the store is returned, and does not
\* change afterwards.
C13_MiddlewareOrder ==
  /\ [][\A a \in UserActions :
          enhancedDispatch(a) =>
            IF NumMiddlewares = 0
            THEN stack' = Append(stack, Frame("dispatch", a, currentReducer))
            ELSE stack' = Append(stack, MiddlewareFrame(enhancer.middlewares[1],
                                                        "store.dispatch", a))]_vars
  /\ [][\A a \in UserActions :
          next(a) =>
            IF Top.i < NumMiddlewares
            THEN stack' = Append(stack, MiddlewareFrame(Top.i + 1, "next", a))
            ELSE stack' = Append(stack, Frame("dispatch", a, currentReducer))]_vars
  /\ [](\A k \in 1 .. Len(stack) :
          /\ (stack[k].kind = "middleware" /\ stack[k].via = "next") =>
                CalledBy(k, stack[k].i - 1)
          /\ (stack[k].kind = "middleware" /\ stack[k].via # "next") => stack[k].i = 1
          /\ (stack[k].kind = "dispatch" /\ stack[k].via = "dispatch"
                /\ enhancer.returned /\ NumMiddlewares > 0) =>
                CalledBy(k, NumMiddlewares)
          /\ stack[k].kind = "listener" =>
                (k > 1 /\ stack[k - 1].kind = "dispatch" /\ stack[k - 1].phase = "notify"))
  /\ [][(middlewareReturns \/ dispatchReturns) => stack' = Pop(stack)]_vars
  /\ [](enhancer.returned => enhancer.dispatch = enhancer.middlewares)
  /\ [][enhancer.returned => enhancer' = enhancer]_vars

\* with two middlewares and a listener: dispatch(INC) has gone through m1 and
\* m2 to the base dispatch, which has made the state 1 and called the
\* listener, and m2 has returned to m1
C13_Witness ==
  /\ NumMiddlewares = 2
  /\ Len(stack) = 1
  /\ Top = MiddlewareFrame(1, "store.dispatch", [plain |-> TRUE, type |-> "INC"])
  /\ lastOp = Did("middleware:return", Ok, Undefined, [plain |-> TRUE, type |-> "INC"])
  /\ currentState = 1
  /\ Len(ListenerList) = 1

\* C14: once applyMiddleware has returned the store, middlewareAPI.dispatch(
\* action), called by a middleware that is handling an action or by code it
\* left to run later, calls the first middleware of the chain, not the next
\* one and not the dispatch of the base store; so whenever the base dispatch
\* is running, the calls below it are those of m1, ..., mn in this order, the
\* middleware that called middlewareAPI.dispatch among them.
C14_ApiDispatchReentersChain ==
  /\ [][\A a \in UserActions :
          (apiDispatch(a) /\ enhancer.returned /\ NumMiddlewares > 0) =>
             stack' = Append(stack, MiddlewareFrame(enhancer.middlewares[1],
                                                    "middlewareAPI.dispatch", a))]_vars
  /\ [](\A k \in 1 .. Len(stack) :
          (stack[k].kind = "dispatch" /\ stack[k].via = "dispatch" /\ enhancer.returned) =>
             /\ k > NumMiddlewares
             /\ \A j \in 1 .. NumMiddlewares :
                  /\ stack[k - NumMiddlewares + j - 1].kind = "middleware"
                  /\ stack[k - NumMiddlewares + j - 1].i = j
                  /\ (stack[k - NumMiddlewares + j - 1].via = "next") <=> (j > 1))

\* m2, handling INC, has called middlewareAPI.dispatch(OTHER): OTHER has gone
\* through m1 and m2 again and the reducer has been called with it
C14_Witness ==
  /\ NumMiddlewares = 2
  /\ Len(stack) = 5
  /\ stack[2] = MiddlewareFrame(2, "next", [plain |-> TRUE, type |-> "INC"])
  /\ stack[3] = MiddlewareFrame(1, "middlewareAPI.dispatch", [plain |-> TRUE, type |-> "OTHER"])
  /\ stack[4] = MiddlewareFrame(2, "next", [plain |-> TRUE, type |-> "OTHER"])
  /\ InReducer
  /\ Top.action.type = "OTHER"

\* C20: on a store built by applyMiddleware, the INIT action of createStore
\* and the one of replaceReducer are given to the reducer by the dispatch of
\* the base store, called straight from createStore (before any middleware is
\* set up) and from replaceReducer: no middleware is called with them.  A
\* middleware is called only by dispatch of the store returned, by
\* middlewareAPI.dispatch once the chain is composed, or by next, with the
\* action given there; middlewareAPI.dispatch called while the middlewares
\* are being set up calls the dispatch of the base store.
C20_InitBypassesMiddleware ==
  /\ [][createStore =>
          /\ stack' = <<Frame("createStore", InitAction, currentReducer)>>
          /\ enhancer.chain = <<>>
          /\ enhancer.dispatch = storeDispatch
          /\ ~enhancer.returned]_vars
  /\ [][\A r \in Reducers :
          replaceReducer(r) =>
            stack' = Append(stack, Frame("replaceReducer", InitAction, r))]_vars
  /\ [](\A k \in 1 .. Len(stack) :
          /\ (stack[k].kind = "dispatch" /\ stack[k].via # "dispatch") =>
                /\ stack[k].action = InitAction
                /\ k = 1 \/ stack[k - 1].kind = "listener"
          /\ stack[k].kind = "middleware" => stack[k].action \in UserActions)
  /\ [][(Len(stack') > Len(stack) /\ Top'.kind = "middleware") =>
          /\ enhancer.returned
          /\ \E a \in UserActions :
               /\ enhancedDispatch(a) \/ apiDispatch(a) \/ next(a)
               /\ Top'.action = a]_vars
  /\ [][\A a \in UserActions :
          (apiDispatch(a) /\ ~enhancer.returned) =>
             stack' = <<Frame("dispatch", a, currentReducer)>>]_vars

\* on a store with two middlewares, a listener called by a dispatch that went
\* through both has called replaceReducer: the reducer is running with INIT,
\* called by no middleware
C20_Witness ==
  /\ NumMiddlewares = 2
  /\ enhancer.returned
  /\ Len(stack) = 5
  /\ stack[2].kind = "middleware"
  /\ stack[4].kind = "listener"
  /\ InReducer
  /\ Top = [Frame("replaceReducer", InitAction, "resetter") EXCEPT !.state = 1]
  /\ currentState = 1

\* C19: replaceReducer has no reentrancy guard of its own and is not atomic
\* on failure: it makes nextReducer the active reducer as soon as it is
\* called; called while a reducer is executing it raises
\* InvalidOperationError, and when nextReducer throws on the INIT action it
\* raises that error, and in both cases the active reducer stays swapped
\* while currentState keeps its value (the one the transition in progress
\* started from, or the previous one); every later dispatch calls the
\* reducer last handed to replaceReducer.
C19_ReplaceReducerNotAtomic ==
  /\ [][\A r \in Reducers :
          replaceReducer(r) => currentReducer' = r /\ currentState' = currentState]_vars
  /\ [][\A r \in Reducers :
          (InReducer /\ replaceReducer(r)) =>
             /\ lastOp' = Raised("replaceReducer", InvalidOperationError, "guard")
             /\ UNCHANGED <<isDispatching, heap, currentListeners,
                            nextListeners, subs, stack>>]_vars
  /\ [][\A e \in Thrown :
          (reducerThrows(e) /\ Top.via = "replaceReducer") =>
             /\ lastOp' = Raised("replaceReducer", e, "reducer")
             /\ currentReducer' = activeArg
             /\ currentState' = Top.state]_vars
  /\ [](currentReducer = activeArg)
  /\ [][\A a \in WellFormed :
          (dispatch(a) /\ Started) => Top'.reducer = currentReducer]_vars

\* replaceReducer was refused while a reducer is executing, and the active
\* reducer is no longer the one that is executing
C19_Witness ==
  /\ InReducer
  /\ lastOp = Raised("replaceReducer", InvalidOperationError, "guard")
  /\ currentReducer # Top.reducer
  /\ currentState = Top.state

\* an outermost dispatch has returned to its caller
OutermostReturned == stack = <<>> /\ lastOp.op = "dispatch" /\ lastOp.outcome = Ok

\* C16: when listeners dispatch while they are notified, no reducer or
\* listener raises and the nesting ends, every listener that was subscribed
\* before the outermost dispatch started and is still subscribed when it
\* returns has been called at least once after the last assignment of
\* currentState, so at a moment when getState() returns the final state of
\* that dispatch.
C16_CalledWithFinalState ==
  OutermostReturned =>
    \A k \in outer.live : subs[k].isSubscribed => subs[k].listener \in outer.seen

\* an outermost dispatch has returned during which a listener dispatched,
\* with two listeners subscribed since before it started
C16_Witness ==
  /\ OutermostReturned
  /\ Len(outer.posts) > 1
  /\ Cardinality({k \in outer.live : subs[k].isSubscribed}) > 1
  /\ Cardinality(outer.seen) > 1

\* the k-th call in progress is a dispatch whose notification loop has begun
Iterating(stk, k) == stk[k].kind = "dispatch" /\ stk[k].phase = "notify"

\* subscribe or unsubscribe has just changed the listener list
ListChanged ==
  /\ lastOp'.op \in {"subscribe", "unsubscribe"}
  /\ lastOp'.outcome = Ok
  /\ subs' # subs

\* C18: in every reachable state, those inside nested dispatches issued by
\* listeners included, the array a notification loop in progress is iterating
\* is never modified: whenever nextListeners is an array some loop is
\* iterating it is also currentListeners, no step changes the contents of an
\* array while a loop iterates it, and after a subscribe or an unsubscribe
\* that changed the list nextListeners is an array no loop is iterating.
C18_IteratedListNeverModified ==
  /\ [](\A k \in 1 .. Len(stack) :
          (Iterating(stack, k) /\ stack[k].listeners = nextListeners) =>
             nextListeners = currentListeners)
  /\ [][\A k \in 1 .. Len(stack) :
          (Iterating(stack, k) /\ k <= Len(stack') /\ Iterating(stack', k)) =>
             heap'[stack'[k].listeners] = heap[stack[k].listeners]]_vars
  /\ [][ListChanged =>
          /\ heap'[nextListeners'] # heap[nextListeners]
          /\ \A k \in 1 .. Len(stack') :
                Iterating(stack', k) => stack'[k].listeners # nextListeners']_vars

\* inside a nested dispatch a listener has changed the listener list, which
\* is now none of the two arrays being iterated
C18_Witness ==
  /\ InListener
  /\ Depth > 1
  /\ lastOp.op \in {"subscribe", "unsubscribe"}
  /\ lastOp.outcome = Ok
  /\ \A k \in 1 .. Len(stack) : Iterating(stack, k) => stack[k].listeners # nextListeners
  /\ heap[stack[1].listeners] # heap[stack[3].listeners]
  /\ heap[nextListeners] # heap[stack[3].listeners]

\* the observer has a next, was subscribed before the outermost dispatch
\* started, and still is
ObserverStayed ==
  /\ observer.next
  /\ observer.closure \in outer.live
  /\ subs[observer.closure].isSubscribed

\* C15 as stated: an observer with a next, subscribed outside a reducer,
\* is delivered the post-transition state of each later successful dispatch,
\* once, in the order of the dispatches, until it is unsubscribed.
C15_Original ==
  (OutermostReturned /\ ObserverStayed) => observer.received = outer.posts

\* C15, amended: subscribing an observer that has a next, outside a reducer,
\* delivers the current state to next once immediately and changes nothing
\* in the store but the listener list; each later successful dispatch whose
\* reducer returned while the observer was subscribed delivers once the state
\* that is current when its notification reaches the observer: its own
\* post-transition state, or that of a later dispatch when a listener
\* notified before the observer has dispatched in the meantime.
C15_ObserverReceivesCurrentState ==
  /\ [][\A o \in Observers :
          (o.object /\ o.next /\ ~InReducer /\ observableSubscribe(o)) =>
             /\ observer'.received = Append(observer.received, currentState)
             /\ heap'[nextListeners'] = Append(heap[nextListeners], ObserveStateListener)
             /\ Len(stack') = Len(stack)
             /\ UNCHANGED <<currentReducer, currentState, isDispatching, pc>>]_vars
  /\ [][(callListener /\ heap[Top.listeners][Top.i + 1] = ObserveStateListener
                       /\ observer.next) =>
          /\ observer'.received = Append(observer.received, currentState)
          /\ currentState = outer.posts[Len(outer.posts)]
          /\ Count(Top.live, ObserveStateListener) > 0]_vars
  /\ []((OutermostReturned /\ ObserverStayed) =>
          /\ Len(observer.received) = Len(outer.posts)
          /\ observer.received[Len(observer.received)] = currentState
          /\ \A i \in 1 .. Len(observer.received) :
                \E j \in i .. Len(outer.posts) : observer.received[i] = outer.posts[j]
          /\ Len(outer.posts) = 1 => observer.received = outer.posts)

\* an outermost dispatch has returned during which a listener notified
\* before the observer dispatched: the observer received the state after
\* the nested dispatch twice, and never the state between the two
C15_Witness ==
  /\ OutermostReturned
  /\ ObserverStayed
  /\ Len(outer.posts) = 2
  /\ observer.received = <<outer.posts[2], outer.posts[2]>>
  /\ outer.posts[1] # outer.posts[2]

====
